---- MODULE Spec2Model ----
(***************************************************************************)
(* A model of gitbook-downloader's crawl-and-convert pipeline              *)
(* (src/src/core/html-parser.js): downloadGitbook with its root            *)
(* navigation, processPages with its striped worker pool and processItem,  *)
(* and processImages.                                                      *)
(*                                                                         *)
(* The document engine (puppeteer) and the file system are the             *)
(* environment: every call into them answers with one of the outcomes the  *)
(* call can have (it resolves, or it rejects with an error message).       *)
(* Every `await` of the code is a point where other tasks may run, so it   *)
(* ends an action.                                                         *)
(***************************************************************************)
EXTENDS Naturals, Sequences, FiniteSets, TLC

(***************************************************************************)
(* Bounds of the model.                                                    *)
(***************************************************************************)
\* Longest table of contents the site serves.
MaxPages == 3
\* Largest configured concurrency.
MaxConc == 2
\* Longest Markdown text given to processImages, in tokens.
MaxTokens == 3
\* Most rows of a table, most cells of a row.
MaxRows == 3
MaxCells == 2
\* Longest href of a link, in parts, and most ancestors of a link below the
\* container of the table of contents.
MaxParts == 2
MaxDepth == 3

VARIABLES
    \* ---- configuration and environment (set once) ----
    opts,        \* options of downloadGitbook: all, auth, downloadImages, concurrency
    site,        \* the table of contents the site serves (a sequence of page paths)
    netErrors,   \* the error messages a navigation on this network can fail with
    \* ---- downloadGitbook ----
    url,         \* the `url` parameter of downloadGitbook (reassigned by the retries)
    mpc,         \* position of downloadGitbook
    rerr,        \* `err` caught around the root page.goto (NoErr outside the catch block)
    rootLoc,     \* where the root page is (NoUrl: nowhere)
    browserOpen, \* the browser is launched and not closed
    runState,    \* "running", "resolved" or "rejected": the promise downloadGitbook returns
    runError,    \* what downloadGitbook rejected with
    toc,         \* tocStructure
    files,       \* the files written under outputDir
    \* ---- processPages ----
    poolState,   \* "idle", "running", "resolved", "rejected": the promise of processPages
    workers,     \* Math.min(concurrency, total)
    wk,          \* per worker: pc, idx and the locals of its processItem call
    items,       \* per page index: what processItem(index) has done
    \* ---- processImages, called by processItem ----
    imgMd,       \* the `markdown` parameter of processImages (a sequence of tokens)
    ipc,         \* position of processImages
    imageMap,    \* imageMap: src -> { localPath, success }
    dl,          \* per token: the file name generated for it and its download
    disk,        \* the image files written
    pageMd,      \* the `markdown` local of processItem
    \* ---- the domTable rule of the Turndown service ----
    node,        \* the TABLE element given to the rule: its rows in document order
    tableMd,     \* what the rule's replacement returned for it
    \* ---- extractTableOfContents, the function evaluated in the page ----
    tocDom,      \* the document: whether it has a container, and the a[href] under it
    tocItems,    \* what the function returned
    \* ---- normalizeTables, called by processItem ----
    markdown,    \* `markdown` of processItem when normalizeTables is called
    normalized   \* whether it has been applied, and the Markdown it returned

\* The state of the conversion rules, which no step of the pipeline changes.
fvars == <<node, tableMd, tocDom, tocItems, markdown, normalized>>

pvars == <<opts, site, netErrors, url, mpc, rerr, rootLoc, browserOpen, runState,
           runError, toc, files, poolState, workers, wk, items, fvars>>

ivars == <<imgMd, ipc, imageMap, dl, disk, pageMd>>

vars == <<pvars, ivars>>

----------------------------------------------------------------------------
(***************************************************************************)
(* URLs.  A URL is its scheme as written, whether credentials are embedded *)
(* in its authority, and its path: 0 is the site root "/", k > 0 the page  *)
(* "/pk".  The host is the same throughout.                                *)
(***************************************************************************)
Url(s, c, p) == [scheme |-> s, cred |-> c, path |-> p]
NoUrl == Url("", FALSE, 0)

\* Variant: the scheme of the URL is not tested.
IsHttpUrlAny(u) == TRUE

\* /^https?:\/\//i.test(url)
IsHttpUrl(u) == u.scheme \in {"https", "http", "HTTPS", "HTTP"}

\* url.startsWith("https://") ? url.replace(/^https:\/\//i, "http://")
\*   : url.startsWith("http://") ? url.replace(/^http:\/\//i, "https://") : url
AltUrl(u) ==
    IF u.scheme = "https" THEN [u EXCEPT !.scheme = "http"]
    ELSE IF u.scheme = "http" THEN [u EXCEPT !.scheme = "https"]
    ELSE u

\* protocol + encodeURIComponent(username):encodeURIComponent(password)@ + rest
UrlWithCreds(u) == [u EXCEPT !.cred = TRUE]

\* new URL(item.url, baseUrlObj).toString(): the base's origin (scheme
\* lower-cased by the URL parser, credentials kept) with the item's path.
ToLower(s) == IF s = "HTTPS" THEN "https" ELSE IF s = "HTTP" THEN "http" ELSE s
PageUrlOf(base, p) == Url(ToLower(base.scheme), base.cred, p)

\* urlObj.pathname !== "/" && urlObj.pathname !== ""
HasPath(u) == u.path # 0

(***************************************************************************)
(* Error messages.  A message is known by the fragments the code searches  *)
(* it for (String.prototype.includes, RegExp.test).                        *)
(***************************************************************************)
NoErr == "no error"
TargetClosed == "Protocol error: Target closed"
EngineError == "Protocol error: engine call failed"
DiskError == "EACCES: permission denied"

Messages ==
    {"net::ERR_CERT_AUTHORITY_INVALID", "net::ERR_SSL_PROTOCOL_ERROR",
     "net::ERR_INVALID_AUTH_CREDENTIALS", "net::ERR_CONNECTION_REFUSED",
     "net::ERR_CONNECTION_RESET", "401 Authorization Required",
     "Navigation timeout of 30000 ms exceeded"}

Fragments(msg) ==
    CASE msg = "net::ERR_CERT_AUTHORITY_INVALID" -> {"ERR_CERT", "net::ERR_CERT"}
      [] msg = "net::ERR_SSL_PROTOCOL_ERROR" -> {"ERR_SSL_PROTOCOL_ERROR"}
      [] msg = "net::ERR_INVALID_AUTH_CREDENTIALS" ->
             {"ERR_INVALID_AUTH_CREDENTIALS", "net::ERR_INVALID_AUTH_CREDENTIALS"}
      [] msg = "net::ERR_CONNECTION_REFUSED" -> {"ERR_CONNECTION_REFUSED"}
      [] msg = "net::ERR_CONNECTION_RESET" -> {"ERR_CONNECTION_RESET"}
      [] msg = "401 Authorization Required" -> {"401", "401 Authorization Required"}
      [] OTHER -> {}

Includes(msg, fragment) == fragment \in Fragments(msg)

\* isProtocolOrAuthError of downloadGitbook
IsProtocolOrAuthError(msg) ==
    \/ Includes(msg, "ERR_INVALID_AUTH_CREDENTIALS")
    \/ Includes(msg, "net::ERR_INVALID_AUTH_CREDENTIALS")
    \/ Includes(msg, "ERR_SSL_PROTOCOL_ERROR")
    \/ Includes(msg, "ERR_CERT")
    \/ Includes(msg, "net::ERR_CERT")
    \/ Includes(msg, "ERR_CONNECTION_REFUSED")
    \/ Includes(msg, "ERR_CONNECTION_RESET")
    \/ Includes(msg, "401")
    \/ Includes(msg, "401 Authorization Required")

\* Variant: every failure of a page's navigation is retried.
IsAnyError(msg) == msg # "ok"

\* isProtocolError of processItem
IsProtocolError(msg) ==
    \/ Includes(msg, "ERR_INVALID_AUTH_CREDENTIALS")
    \/ Includes(msg, "net::ERR_INVALID_AUTH_CREDENTIALS")
    \/ Includes(msg, "ERR_SSL_PROTOCOL_ERROR")
    \/ Includes(msg, "ERR_CERT")
    \/ Includes(msg, "net::ERR_CERT")
    \/ Includes(msg, "ERR_CONNECTION_REFUSED")
    \/ Includes(msg, "ERR_CONNECTION_RESET")

\* auth && auth.username && auth.password
HasCredentials == opts.auth = "full"

----------------------------------------------------------------------------
(***************************************************************************)
(* State of the pool.                                                      *)
(***************************************************************************)
WorkerIds == 0 .. (MaxConc - 1)
PageIds == 0 .. (MaxPages - 1)

total == Len(toc)
Active == {w \in WorkerIds : w < workers}

IdleWorker == [pc |-> "idle", idx |-> 0, err |-> NoErr, pageUrl |-> NoUrl]
\* calls: how often processItem(i) was called; session: the page it opened
\* ("none", "open", "closed" by page.close(), "killed" with the browser);
\* loc: where that page is; nav: how the navigation ended; md: the Markdown
\* ("empty" after trimming, or "text"); wrote: the artifact was written;
\* log: the message of the console.error for a failed navigation;
\* ret: how the call ended ("returned" or "threw").
FreshItem == [calls |-> 0, session |-> "none", loc |-> NoUrl, nav |-> "none",
              md |-> "none", wrote |-> FALSE, log |-> NoErr, ret |-> "none"]

\* tocStructure[index].url
ItemPath(i) == toc[i + 1]

\* The files of outputDir.
IndexFile == <<"README.md">>
SingleFile == <<"single.md">>
PageFile(p) == <<"page.md", p>>

----------------------------------------------------------------------------
(***************************************************************************)
(* Initial states: downloadGitbook is called with a URL and options, on a  *)
(* site that serves a table of contents.                                   *)
(***************************************************************************)
\* Tables of contents up to renaming of the pages: page k > 1 is first
\* linked after page k - 1.  Repeated links are kept (no dedup).
IsCanonicalToc(s) ==
    \A k \in 1 .. Len(s) : s[k] > 1 => \E j \in 1 .. (k - 1) : s[j] = s[k] - 1

Tocs(n) == UNION {{s \in [1 .. k -> 1 .. k] : IsCanonicalToc(s)} : k \in 0 .. n}

Min(a, b) == IF a < b THEN a ELSE b

(***************************************************************************)
(* Markdown as processImages sees it: a sequence of tokens, each either    *)
(* text without an image reference or one image reference ![alt](src).     *)
(* The src is a data: URI, one of the remote sources SrcIds, or, once      *)
(* rewritten, the local path of a generated file name.                     *)
(***************************************************************************)
SrcIds == {1, 2}
Text == [kind |-> "text", at |-> "", id |-> 0]
DataUri == [kind |-> "img", at |-> "data", id |-> 0]
Remote(k) == [kind |-> "img", at |-> "remote", id |-> k]
Local(n) == [kind |-> "img", at |-> "local", id |-> n]
Tokens == {Text, DataUri} \cup {Remote(k) : k \in SrcIds}
Markdowns == UNION {[1 .. n -> Tokens] : n \in 0 .. MaxTokens}

\* No entry of imageMap under a src (generated names are 1, 2, ...).
NoEntry == [localPath |-> 0, success |-> FALSE]
NoDownload == [name |-> 0, st |-> "none"]

\* No document is given to extractTableOfContents, and it has not returned.
NoDocument == [found |-> FALSE, links |-> <<>>]
NotEvaluated == [done |-> FALSE, items |-> <<>>]

\* No rule has been applied: the replacement's result is still to come.
NotConverted == [done |-> FALSE, text |-> <<>>]

\* normalizeTables has not been applied.
NotNormalized == [done |-> FALSE, text |-> <<>>]

\* processImages is not running and no conversion rule is applied.
ImgIdle ==
    /\ node = <<>>
    /\ tableMd = NotConverted
    /\ tocDom = NoDocument
    /\ tocItems = NotEvaluated
    /\ markdown = <<>>
    /\ normalized = NotNormalized
    /\ imgMd = <<>>
    /\ ipc = "idle"
    /\ imageMap = [k \in SrcIds |-> NoEntry]
    /\ dl = <<>>
    /\ disk = {}
    /\ pageMd = <<>>

InitWith(rootUrls, sites, errorSets, allFlags) ==
    /\ ImgIdle
    /\ url \in rootUrls
    /\ opts \in [all : allFlags, auth : {"none", "full"},
                 downloadImages : BOOLEAN, concurrency : 1 .. MaxConc]
    /\ site \in sites
    /\ netErrors \in errorSets
    /\ mpc = "start"
    /\ rerr = NoErr
    /\ rootLoc = NoUrl
    /\ browserOpen = FALSE
    /\ runState = "running"
    /\ runError = NoErr
    /\ toc = <<>>
    /\ files = {}
    /\ poolState = "idle"
    /\ workers = 0
    /\ wk = [w \in WorkerIds |-> IdleWorker]
    /\ items = [i \in PageIds |-> FreshItem]

----------------------------------------------------------------------------
(***************************************************************************)
(* downloadGitbook                                                         *)
(***************************************************************************)
\* What no step of downloadGitbook and processPages changes: the
\* configuration, the environment, and the state of processImages.
cfgvars == <<opts, site, netErrors, ivars, fvars>>
poolvars == <<poolState, workers, wk, items>>

\* An exception leaves the try block of downloadGitbook: control goes to
\* its finally clause and the promise will reject with `e`.
Throw(e) == mpc' = "finally" /\ runError' = e

\* Variant: the error of the last attempt is thrown.
RootThrownLast(first, retry) == retry

\* `throw err` of the root navigation: the error of the first page.goto,
\* whatever a retry failed with.
RootThrown(first, retry) == first

\* await ensureDirectory(outputDir), before the browser exists
EnsureOutputDir ==
    /\ mpc = "start"
    /\ \/ mpc' = "launch" /\ UNCHANGED <<runState, runError>>
       \/ mpc' = "done" /\ runState' = "rejected" /\ runError' = DiskError
    /\ UNCHANGED <<cfgvars, url, rerr, rootLoc, browserOpen, toc, files, poolvars>>

\* await puppeteer.launch(...), outside the try block
Launch ==
    /\ mpc = "launch"
    /\ \/ mpc' = "open" /\ browserOpen' = TRUE /\ UNCHANGED <<runState, runError>>
       \/ /\ mpc' = "done" /\ runState' = "rejected" /\ runError' = EngineError
          /\ UNCHANGED browserOpen
    /\ UNCHANGED <<cfgvars, url, rerr, rootLoc, toc, files, poolvars>>

\* browser.newPage(), page.setViewport, page.authenticate
RootOpen ==
    /\ mpc = "open"
    /\ \/ mpc' = "rgoto" /\ UNCHANGED runError
       \/ Throw(EngineError)
    /\ UNCHANGED <<cfgvars, url, rerr, rootLoc, browserOpen, runState, toc, files,
                   poolvars>>

\* await page.goto(url), and on its failure the classification of the error
RootGoto ==
    /\ mpc = "rgoto"
    /\ \E r \in {"ok"} \cup netErrors :
         IF r = "ok"
         THEN /\ rootLoc' = url /\ mpc' = "ready"
              /\ UNCHANGED <<rerr, runError>>
         ELSE IF IsProtocolOrAuthError(r) /\ IsHttpUrl(url)
         THEN /\ rerr' = r /\ mpc' = "rswap"
              /\ UNCHANGED <<rootLoc, runError>>
         ELSE /\ Throw(r)
              /\ UNCHANGED <<rootLoc, rerr>>
    /\ UNCHANGED <<cfgvars, url, browserOpen, runState, toc, files, poolvars>>

\* 1) await page.goto(altUrl), then the code after its try/catch up to the
\* next await: with credentials the embedded-credentials attempt follows,
\* without them the else branch throws err
RootSwap ==
    /\ mpc = "rswap"
    /\ \E r \in {"ok"} \cup netErrors :
         /\ IF r = "ok"
            THEN url' = AltUrl(url) /\ rootLoc' = AltUrl(url)
            ELSE UNCHANGED <<url, rootLoc>>
         /\ IF HasCredentials
            THEN mpc' = "rcred" /\ UNCHANGED <<rerr, runError>>
            ELSE Throw(RootThrown(rerr, r)) /\ rerr' = NoErr
    /\ UNCHANGED <<cfgvars, browserOpen, runState, toc, files, poolvars>>

\* 2) await page.goto(urlWithCreds)
RootCred ==
    /\ mpc = "rcred"
    /\ \E r \in {"ok"} \cup netErrors :
         IF r = "ok"
         THEN /\ url' = UrlWithCreds(url) /\ rootLoc' = UrlWithCreds(url)
              /\ mpc' = "ready"
              /\ UNCHANGED runError
         ELSE /\ Throw(RootThrown(rerr, r))
              /\ UNCHANGED <<url, rootLoc>>
    /\ rerr' = NoErr
    /\ UNCHANGED <<cfgvars, browserOpen, runState, toc, files, poolvars>>

\* handleAuthentication (if auth), page.waitForSelector("body"), page.title(),
\* then the choice between the single page and the whole site
RootReady ==
    /\ mpc = "ready"
    /\ \/ /\ mpc' = IF HasPath(url) /\ ~opts.all THEN "single" ELSE "toc"
          /\ UNCHANGED runError
       \/ Throw(EngineError)
    /\ UNCHANGED <<cfgvars, url, rerr, rootLoc, browserOpen, runState, toc, files,
                   poolvars>>

\* extractPageContent(page) and turndownService.turndown(content)
SingleExtract ==
    /\ mpc = "single"
    /\ \/ /\ mpc' = IF opts.downloadImages THEN "simages" ELSE "swrite"
          /\ UNCHANGED runError
       \/ Throw(EngineError)
    /\ UNCHANGED <<cfgvars, url, rerr, rootLoc, browserOpen, runState, toc, files,
                   poolvars>>

\* ensureDirectory(imagesDir) and processImages(page, markdown, ...)
SingleImages ==
    /\ mpc = "simages"
    /\ \/ mpc' = "swrite" /\ UNCHANGED runError
       \/ Throw(DiskError)
       \/ Throw(EngineError)
    /\ UNCHANGED <<cfgvars, url, rerr, rootLoc, browserOpen, runState, toc, files,
                   poolvars>>

\* writeFile(path.join(outputDir, fileName + ".md"), markdown)
SingleWrite ==
    /\ mpc = "swrite"
    /\ \/ /\ files' = files \cup {SingleFile} /\ mpc' = "finally"
          /\ UNCHANGED runError
       \/ Throw(DiskError) /\ UNCHANGED files
    /\ UNCHANGED <<cfgvars, url, rerr, rootLoc, browserOpen, runState, toc, poolvars>>

\* tocStructure = await extractTableOfContents(page)
ExtractToc ==
    /\ mpc = "toc"
    /\ \/ toc' = site /\ mpc' = "index" /\ UNCHANGED runError
       \/ Throw(EngineError) /\ UNCHANGED toc
    /\ UNCHANGED <<cfgvars, url, rerr, rootLoc, browserOpen, runState, files, poolvars>>

\* await createIndexFile(outputDir, title, tocStructure)
CreateIndex ==
    /\ mpc = "index"
    /\ \/ files' = files \cup {IndexFile} /\ mpc' = "pages" /\ UNCHANGED runError
       \/ Throw(DiskError) /\ UNCHANGED files
    /\ UNCHANGED <<cfgvars, url, rerr, rootLoc, browserOpen, runState, toc, poolvars>>

----------------------------------------------------------------------------
(***************************************************************************)
(* processPages: the pool                                                  *)
(***************************************************************************)
rootvars == <<url, rerr, rootLoc, toc>>
runvars == <<mpc, runState, runError, browserOpen, poolState>>

\* Variant: a worker goes on with the index after its own, without a stride.
NextIdxNoStride(w) == wk[w].idx + 1

\* idx += workers
NextIdx(w) == wk[w].idx + workers

\* A worker that calls processItem(i) runs it up to its first await,
\* browser.newPage(): pageUrl is computed on the way.
Calling(i) ==
    [pc |-> "newPage", idx |-> i, err |-> NoErr, pageUrl |-> PageUrlOf(url, ItemPath(i))]

\* while (idx < total) { await processItem(idx); idx += workers; }
Continue(w) ==
    IF NextIdx(w) < total
    THEN Calling(NextIdx(w))
    ELSE [pc |-> "done", idx |-> NextIdx(w), err |-> NoErr, pageUrl |-> NoUrl]

Called(its, w) ==
    IF NextIdx(w) < total THEN [its EXCEPT ![NextIdx(w)].calls = @ + 1] ELSE its

\* processItem(i) returns to the loop of worker w
Returns(w, i, its) ==
    /\ wk' = [wk EXCEPT ![w] = Continue(w)]
    /\ items' = Called([its EXCEPT ![i].ret = "returned"], w)
    /\ UNCHANGED runvars

\* processItem(i) throws e: the async function `worker` rejects with it.
\* The first rejection rejects Promise.all, processPages and the await of
\* downloadGitbook in the same turn of the event loop, and control is in
\* the finally clause of downloadGitbook.
Rejects(w, i, its, e) ==
    /\ wk' = [wk EXCEPT ![w] = [@ EXCEPT !.pc = "rejected", !.err = e]]
    /\ items' = [its EXCEPT ![i].ret = "threw"]
    /\ IF mpc = "await"
       THEN /\ poolState' = "rejected"
            /\ Throw(e)
            /\ UNCHANGED <<runState, browserOpen>>
       ELSE UNCHANGED runvars

\* Variant: processItem returns and leaves its page open.
ReturnsUnclosed(w, i, its) == Returns(w, i, its)

\* await page.close(); return.  A page of a browser that is already closed
\* is gone: closing it again resolves or rejects.
CloseAndReturn(w, i, its) ==
    \E c \in IF browserOpen THEN {"ok"} ELSE {"ok", "throw"} :
        IF c = "ok"
        THEN Returns(w, i, [its EXCEPT ![i].session = IF @ = "open" THEN "closed" ELSE @,
                                       ![i].loc = NoUrl])
        ELSE Rejects(w, i, its, TargetClosed)

\* The message console.error is given when the retry has failed too:
\* err.message, of the first page.goto.
PageLogged(first, retry) == first

\* Variant: the navigation error is thrown again out of processItem.
NavFailedRethrows(w, i, msg) ==
    Rejects(w, i, [items EXCEPT ![i].nav = "failed", ![i].log = msg], msg)

\* console.error(`页面 ${pageUrl} 导航失败：`, err.message); await page.close(); return;
NavFailed(w, i, msg) ==
    CloseAndReturn(w, i, [items EXCEPT ![i].nav = "failed", ![i].log = msg])

\* What a navigation of a page answers.
PageGotoResults == IF browserOpen THEN {"ok"} \cup netErrors ELSE {TargetClosed}

\* Variant: the test for empty Markdown is missing.
AfterMarkdownNoTest(m) == "mkdir"

\* The position after the Markdown is final: `if (!markdown || !markdown.trim())`
AfterMarkdown(m) == IF m = "empty" THEN "close" ELSE "mkdir"

\* processPages up to Promise.all: ensureDirectory(imagesDir) when images
\* are downloaded, then the workers are started
PoolStart ==
    /\ mpc = "pages"
    /\ \/ /\ opts.downloadImages
          /\ Throw(DiskError)
          /\ poolState' = "rejected"
          /\ UNCHANGED <<workers, wk, items>>
       \/ /\ workers' = Min(opts.concurrency, total)
          /\ wk' = [w \in WorkerIds |-> IF w < workers' THEN Calling(w) ELSE IdleWorker]
          /\ items' = [i \in PageIds |->
                         IF i < workers' THEN [FreshItem EXCEPT !.calls = 1] ELSE FreshItem]
          /\ poolState' = "running"
          /\ mpc' = "await"
          /\ UNCHANGED runError
    /\ UNCHANGED <<cfgvars, rootvars, browserOpen, runState, files>>

\* const page = await browser.newPage()
NewPage(w) ==
    /\ wk[w].pc = "newPage"
    /\ LET i == wk[w].idx IN
       \E r \in IF browserOpen THEN {"ok", "throw"} ELSE {"throw"} :
          IF r = "ok"
          THEN /\ items' = [items EXCEPT ![i].session = "open"]
               /\ wk' = [wk EXCEPT ![w].pc = IF HasCredentials THEN "auth" ELSE "goto"]
               /\ UNCHANGED runvars
          ELSE Rejects(w, i, items, EngineError)
    /\ UNCHANGED <<cfgvars, rootvars, files, workers>>

\* try { await page.authenticate(...) } catch (e) {}
Authenticate(w) ==
    /\ wk[w].pc = "auth"
    /\ wk' = [wk EXCEPT ![w].pc = "goto"]
    /\ UNCHANGED <<cfgvars, rootvars, runvars, files, workers, items>>

\* await page.goto(pageUrl), and on its failure the classification
Goto(w) ==
    /\ wk[w].pc = "goto"
    /\ LET i == wk[w].idx IN
       \E r \in PageGotoResults :
          IF r = "ok"
          THEN /\ items' = [items EXCEPT ![i].loc = wk[w].pageUrl, ![i].nav = "ok"]
               /\ wk' = [wk EXCEPT ![w].pc = "extract"]
               /\ UNCHANGED runvars
          ELSE IF IsProtocolError(r) /\ IsHttpUrl(wk[w].pageUrl)
          THEN /\ wk' = [wk EXCEPT ![w].pc = "swap", ![w].err = r]
               /\ UNCHANGED <<items, runvars>>
          ELSE NavFailed(w, i, r)
    /\ UNCHANGED <<cfgvars, rootvars, files, workers>>

\* await page.goto(altUrl); pageUrl = altUrl
Swap(w) ==
    /\ wk[w].pc = "swap"
    /\ LET i == wk[w].idx
           alt == AltUrl(wk[w].pageUrl) IN
       \E r \in PageGotoResults :
          IF r = "ok"
          THEN /\ items' = [items EXCEPT ![i].loc = alt, ![i].nav = "ok"]
               /\ wk' = [wk EXCEPT ![w].pc = "extract", ![w].err = NoErr,
                                   ![w].pageUrl = alt]
               /\ UNCHANGED runvars
          ELSE NavFailed(w, i, PageLogged(wk[w].err, r))
    /\ UNCHANGED <<cfgvars, rootvars, files, workers>>

\* page.waitForSelector("main").catch(() => {}); extractPageContent(page);
\* turndownService.turndown(content || ""); without downloadImages also
\* normalizeTables and the test for empty Markdown
Extract(w) ==
    /\ wk[w].pc = "extract"
    /\ LET i == wk[w].idx IN
       \E r \in IF browserOpen THEN {"empty", "text", "throw"} ELSE {"throw"} :
          IF r = "throw"
          THEN Rejects(w, i, items, EngineError)
          ELSE /\ items' = [items EXCEPT ![i].md = r]
               /\ wk' = [wk EXCEPT ![w].pc = IF opts.downloadImages THEN "images"
                                             ELSE AfterMarkdown(r)]
               /\ UNCHANGED runvars
    /\ UNCHANGED <<cfgvars, rootvars, files, workers>>

\* try { markdown = await processImages(...) } catch (e) { console.error(...) },
\* then normalizeTables and the test for empty Markdown
Images(w) ==
    /\ wk[w].pc = "images"
    /\ wk' = [wk EXCEPT ![w].pc = AfterMarkdown(items[wk[w].idx].md)]
    /\ UNCHANGED <<cfgvars, rootvars, runvars, files, workers, items>>

\* await ensureDirectory(fileDir)
Mkdir(w) ==
    /\ wk[w].pc = "mkdir"
    /\ \/ wk' = [wk EXCEPT ![w].pc = "write"] /\ UNCHANGED <<items, runvars>>
       \/ Rejects(w, wk[w].idx, items, DiskError)
    /\ UNCHANGED <<cfgvars, rootvars, files, workers>>

\* try { await writeFile(path.join(fileDir, fileName), markdown) } catch (e) { console.error(...) }
Write(w) ==
    /\ wk[w].pc = "write"
    /\ LET i == wk[w].idx IN
       \/ /\ files' = files \cup {PageFile(ItemPath(i))}
          /\ items' = [items EXCEPT ![i].wrote = TRUE]
       \/ UNCHANGED <<files, items>>
    /\ wk' = [wk EXCEPT ![w].pc = "close"]
    /\ UNCHANGED <<cfgvars, rootvars, runvars, workers>>

\* await page.close() at the end of processItem, and for empty Markdown
Close(w) ==
    /\ wk[w].pc = "close"
    /\ CloseAndReturn(w, wk[w].idx, items)
    /\ UNCHANGED <<cfgvars, rootvars, files, workers>>

\* await Promise.all(promises): every worker has finished
PoolResolve ==
    /\ mpc = "await"
    /\ \A w \in Active : wk[w].pc = "done"
    /\ poolState' = "resolved"
    /\ mpc' = "finally"
    /\ UNCHANGED <<cfgvars, rootvars, browserOpen, runState, runError, files,
                   workers, wk, items>>

\* finally { await browser.close() }: the pages still open go with the browser
Finally ==
    /\ mpc = "finally"
    /\ browserOpen' = FALSE
    /\ items' = [i \in PageIds |->
                   [items[i] EXCEPT !.session = IF @ = "open" THEN "killed" ELSE @,
                                    !.loc = NoUrl]]
    /\ runState' = IF runError = NoErr THEN "resolved" ELSE "rejected"
    /\ mpc' = "done"
    /\ UNCHANGED <<cfgvars, rootvars, runError, files, poolState, workers, wk>>

----------------------------------------------------------------------------
Worker(w) ==
    \/ NewPage(w) \/ Authenticate(w) \/ Goto(w) \/ Swap(w)
    \/ Extract(w) \/ Images(w) \/ Mkdir(w) \/ Write(w) \/ Close(w)

\* processPages, from its call to the end of the run.
NextPool ==
    \/ PoolStart
    \/ \E w \in WorkerIds : Worker(w)
    \/ PoolResolve \/ Finally

\* downloadGitbook.
Next ==
    \/ EnsureOutputDir \/ Launch \/ RootOpen
    \/ RootGoto \/ RootSwap \/ RootCred \/ RootReady
    \/ SingleExtract \/ SingleImages \/ SingleWrite
    \/ ExtractToc \/ CreateIndex
    \/ NextPool

\* The tables of contents without repeated links.
DistinctTocs(n) == {[k \in 1 .. m |-> k] : m \in 0 .. n}

\* processPages is called: the root page is loaded, the table of
\* contents is read and the index file is written.
BaseUrls == {Url("https", FALSE, 0)}
PoolErrors == {{"net::ERR_CERT_AUTHORITY_INVALID", "401 Authorization Required"}}

Init ==
    /\ ImgIdle
    /\ url \in BaseUrls
    /\ opts \in [all : {FALSE}, auth : {"none", "full"},
                 downloadImages : BOOLEAN, concurrency : 1 .. MaxConc]
    /\ site \in DistinctTocs(MaxPages)
    /\ netErrors \in PoolErrors
    /\ mpc = "pages"
    /\ rerr = NoErr
    /\ rootLoc = url
    /\ browserOpen = TRUE
    /\ runState = "running"
    /\ runError = NoErr
    /\ toc = site
    /\ files = {IndexFile}
    /\ poolState = "idle"
    /\ workers = 0
    /\ wk = [w \in WorkerIds |-> IdleWorker]
    /\ items = [i \in PageIds |-> FreshItem]

Spec == Init /\ [][NextPool]_vars

\* downloadGitbook from its call, on a site of at most MaxRunPages pages.
MaxRunPages == 1
RunUrls == {Url(s, FALSE, p) : s \in {"https", "http", "HTTPS", "file"}, p \in {0, 1}}

InitRun == InitWith(RunUrls, DistinctTocs(MaxRunPages), {Messages}, BOOLEAN)

SpecRun == InitRun /\ [][Next]_vars

----------------------------------------------------------------------------
(***************************************************************************)
(* processImages(page, markdown, imagesDir, pageUrl), as processItem calls *)
(* it:  try { markdown = await processImages(...) } catch (e) { log }      *)
(***************************************************************************)
Positions == DOMAIN imgMd

\* The matches of imgRegex the loop does not skip: image references whose
\* src does not start with "data:".
IsDownloaded(tok) == tok.kind = "img" /\ tok.at = "remote"
Occurrences == {p \in Positions : IsDownloaded(imgMd[p])}

\* The file names `image_${Date.now()}_${Math.floor(Math.random() * 1000)}${ext}`
\* of one run of the loop, up to renaming: two occurrences get the same
\* number when the clock and the random number agree, which any two
\* may.  The first occurrence is named 1, a later one takes a name already
\* given or the next unused one.
IsNaming(nm) ==
    \A p \in Positions :
        IF p \in Occurrences
        THEN /\ nm[p] >= 1
             /\ nm[p] > 1 => \E q \in Occurrences : q < p /\ nm[q] = nm[p] - 1
        ELSE nm[p] = 0
Namings == {nm \in [Positions -> 0 .. Len(imgMd)] : IsNaming(nm)}

\* imageMap after the loop: imageMap.set(src, ...) of a later occurrence
\* replaces the entry of an earlier one with the same src.
LastOccurrence(k) ==
    CHOOSE p \in Occurrences :
        /\ imgMd[p].id = k
        /\ \A q \in Occurrences : imgMd[q].id = k => q <= p
MapAfterScan(nm) ==
    [k \in SrcIds |->
        IF \E p \in Occurrences : imgMd[p].id = k
        THEN [localPath |-> nm[LastOccurrence(k)], success |-> FALSE]
        ELSE NoEntry]

\* imageMap.forEach: every reference whose src has an entry with success
\* set is replaced by a reference to the entry's localPath.
Rewrite(md, map) ==
    [p \in DOMAIN md |->
        IF IsDownloaded(md[p]) /\ map[md[p].id].success
        THEN Local(map[md[p].id].localPath)
        ELSE md[p]]

\* What a download ends with: the file is written ("ok"); fetch answers
\* not-ok or throws, so that the evaluation returns null ("null"); the data
\* URL has no content ("nodata"); page.evaluate rejects ("evalReject");
\* fs.writeFile rejects ("writeFail").
Outcomes == {"ok", "null", "nodata", "evalReject", "writeFail"}
Rejecting == {"evalReject", "writeFail"}
Unsettled == {p \in Positions : dl[p].st = "pending"}

\* await ensureDirectory(pageImagesDir)
ImgEnsureDir ==
    /\ ipc = "mkdir"
    /\ ipc' \in {"scan", "threw"}
    /\ UNCHANGED <<pvars, imgMd, imageMap, dl, disk, pageMd>>

\* the while loop over the matches of imgRegex: it has no await, so it runs
\* to its end before any download settles
ImgScan ==
    /\ ipc = "scan"
    /\ \E nm \in Namings :
          /\ imageMap' = MapAfterScan(nm)
          /\ dl' = [p \in Positions |->
                       IF p \in Occurrences
                       THEN [name |-> nm[p], st |-> "pending"]
                       ELSE NoDownload]
    /\ ipc' = "wait"
    /\ UNCHANGED <<pvars, imgMd, disk, pageMd>>

\* one of imagePromises settles; a rejection rejects Promise.all, so that
\* processImages throws and processItem keeps its markdown
ImgSettle(p) ==
    /\ p \in Unsettled
    /\ \E o \in Outcomes :
          /\ dl' = [dl EXCEPT ![p].st = IF o = "ok" THEN "ok"
                                         ELSE IF o \in Rejecting THEN "rejected"
                                         ELSE "failed"]
          /\ IF o = "ok"
             THEN /\ disk' = disk \cup {dl[p].name}
                  /\ imageMap' = [imageMap EXCEPT ![imgMd[p].id].success = TRUE]
             ELSE UNCHANGED <<disk, imageMap>>
          /\ ipc' = IF o \in Rejecting /\ ipc = "wait" THEN "threw" ELSE ipc
    /\ UNCHANGED <<pvars, imgMd, pageMd>>

\* Promise.all resolves: the references are rewritten and processImages
\* returns processedMarkdown, which processItem assigns to markdown
ImgReturn ==
    /\ ipc = "wait"
    /\ Unsettled = {}
    /\ pageMd' = Rewrite(imgMd, imageMap)
    /\ ipc' = "returned"
    /\ UNCHANGED <<pvars, imgMd, imageMap, dl, disk>>

NextImg ==
    \/ ImgEnsureDir
    \/ ImgScan
    \/ \E p \in 1 .. MaxTokens : ImgSettle(p)
    \/ ImgReturn

\* processItem has converted its page and calls processImages.
InitImg ==
    /\ url = Url("https", FALSE, 0)
    /\ opts = [all |-> FALSE, auth |-> "none", downloadImages |-> TRUE, concurrency |-> 1]
    /\ site = <<1>>
    /\ netErrors = {}
    /\ mpc = "await"
    /\ rerr = NoErr
    /\ rootLoc = url
    /\ browserOpen = TRUE
    /\ runState = "running"
    /\ runError = NoErr
    /\ toc = site
    /\ files = {IndexFile}
    /\ poolState = "running"
    /\ workers = 1
    /\ wk = [w \in WorkerIds |-> IF w = 0 THEN [Calling(0) EXCEPT !.pc = "images"] ELSE IdleWorker]
    /\ items = [i \in PageIds |->
                  IF i = 0
                  THEN [FreshItem EXCEPT !.calls = 1, !.session = "open",
                                         !.loc = PageUrlOf(url, 1), !.nav = "ok", !.md = "text"]
                  ELSE FreshItem]
    /\ node = <<>>
    /\ tableMd = NotConverted
    /\ tocDom = NoDocument
    /\ tocItems = NotEvaluated
    /\ markdown = <<>>
    /\ normalized = NotNormalized
    /\ imgMd \in Markdowns
    /\ pageMd = imgMd
    /\ ipc = "mkdir"
    /\ imageMap = [k \in SrcIds |-> NoEntry]
    /\ dl = [p \in DOMAIN imgMd |-> NoDownload]
    /\ disk = {}

SpecImg == InitImg /\ [][NextImg]_vars

----------------------------------------------------------------------------
(***************************************************************************)
(* Claims about the pool (checked under Spec)                              *)
(***************************************************************************)
Settled == poolState \in {"resolved", "rejected"}
Indices == 0 .. (total - 1)

\* C1: exactly min(concurrency, n) workers run, worker w calls processItem
\* on the indices w, w + workers, ... only, and when the pool has finished
\* every index 0 .. n-1 has been processed exactly once, whatever the
\* interleaving and whatever each page's processing ended with.
C1_EveryIndexExactlyOnce ==
    workers > 0 =>
        /\ workers = Min(opts.concurrency, total)
        /\ \A w \in Active : wk[w].idx % workers = w
        /\ \A i \in Indices : items[i].calls <= 1
        /\ Settled => \A i \in Indices : items[i].calls = 1

\* C2: when processItem(i) has ended, by returning or by throwing, the
\* session it opened has been closed by page.close().
C2_SessionClosedOnEveryExit ==
    \A i \in PageIds : items[i].ret # "none" => items[i].session \in {"none", "closed"}

\* C3: a failed navigation is caught: it closes the page and returns to the
\* worker's loop without an artifact, it changes nothing of the other
\* workers or of the run, and the pool is rejected only when some page's
\* processing threw for another reason; a pool that resolves has processed
\* every index.
C3_NavFailureStep ==
    \A w \in WorkerIds :
        LET i == wk[w].idx IN
        (/\ wk[w].pc \in {"goto", "swap"}
         /\ browserOpen
         /\ items'[i].nav = "failed")
        => /\ items'[i].ret = "returned"
           /\ items'[i].session = "closed"
           /\ ~items'[i].wrote
           /\ wk'[w].pc \in {"newPage", "done"}
           /\ \A v \in WorkerIds \ {w} : wk'[v] = wk[v]
           /\ UNCHANGED <<runvars, files>>

C3_NavFailureState ==
    /\ \A i \in PageIds : items[i].nav = "failed" => ~items[i].wrote
    /\ (workers > 0 /\ poolState = "rejected")
          => \E i \in Indices : items[i].ret = "threw" /\ items[i].nav # "failed"
    /\ poolState = "resolved"
          => \A i \in Indices : items[i].calls = 1 /\ items[i].ret = "returned"

C3_NavFailureIsolated == []C3_NavFailureState /\ [][C3_NavFailureStep]_vars

\* A page's navigation failed, its worker went on to its next index and
\* wrote it, and so did the other worker: the pool resolved.
C3_Witness ==
    /\ poolState = "resolved"
    /\ workers = 2
    /\ total = 3
    /\ items[0].nav = "failed"
    /\ items[0].log = "net::ERR_CERT_AUTHORITY_INVALID"
    /\ items[1].wrote
    /\ items[2].wrote

\* C4: once the pool runs, no error of a page makes downloadGitbook reject,
\* and every index is processed.
C4_PageErrorsNeverAbortRun ==
    workers > 0 =>
        /\ runState # "rejected"
        /\ poolState # "rejected"
        /\ runState = "resolved" => \A i \in Indices : items[i].calls = 1

----------------------------------------------------------------------------
(***************************************************************************)
(* Claims about the navigation retries (checked under SpecRun)             *)
(***************************************************************************)
\* The root navigation has ended without loading a document.
RootNavFailed == mpc \in {"finally", "done"} /\ rootLoc = NoUrl /\ runError \in Messages

\* C5: when the scheme-swapped retry loads the document, the swapped URL
\* becomes the effective URL and processing goes on with it: at the root,
\* downloadGitbook continues with url = altUrl; for a page, processItem
\* continues to the extraction on the swapped URL.
C5_SwapSuccessStep ==
    /\ (mpc = "rswap" /\ rootLoc' # NoUrl)
          => (mpc' # "finally" /\ url' = AltUrl(url) /\ rootLoc' = AltUrl(url))
    /\ \A w \in WorkerIds :
          LET i == wk[w].idx IN
          (wk[w].pc = "swap" /\ items'[i].nav = "ok")
          => /\ wk'[w].pc = "extract"
             /\ wk'[w].pageUrl = AltUrl(wk[w].pageUrl)
             /\ items'[i].loc = AltUrl(wk[w].pageUrl)

C5_SwapSuccessIsEffective == [][C5_SwapSuccessStep]_vars

\* C6: the credential-embedded attempt is made only after the swapped retry
\* failed and with credentials supplied; a root navigation that loaded the
\* document on the swapped URL is not followed by another attempt and does
\* not end as a navigation failure.
C6_CredAttemptOnlyAfterFailedSwap ==
    /\ mpc = "rcred" => (rootLoc = NoUrl /\ HasCredentials)
    /\ (mpc = "finally" /\ runError \in Messages) => rootLoc = NoUrl

\* C7: whichever retry failed last, the error reported is the one of the
\* first attempt: downloadGitbook rejects with the first page.goto's error,
\* processItem logs the first page.goto's message.
C7_FirstErrorStep ==
    /\ (mpc = "rgoto" /\ mpc' = "rswap") => rerr' \in netErrors
    /\ (mpc = "rswap" /\ mpc' = "rcred") => rerr' = rerr
    /\ (mpc \in {"rswap", "rcred"} /\ mpc' = "finally") => runError' = rerr
    /\ \A w \in WorkerIds :
          LET i == wk[w].idx IN
          (wk[w].pc = "goto" /\ wk'[w].pc = "swap") => wk'[w].err \in netErrors
    /\ \A w \in WorkerIds :
          LET i == wk[w].idx IN
          (wk[w].pc = "swap" /\ items'[i].nav = "failed" /\ browserOpen)
          => items'[i].log = wk[w].err

C7_FirstErrorReported == [][C7_FirstErrorStep]_vars

\* The root navigation failed after the swapped and the credential-embedded
\* retries, and downloadGitbook ends with a classified error.
C7_Witness ==
    /\ RootNavFailed
    /\ HasCredentials
    /\ IsHttpUrl(url)
    /\ IsProtocolOrAuthError(runError)
    /\ runState = "rejected"

\* C8: a first attempt that fails with an error outside the classification,
\* or on a URL that is not http(s), is not retried: the root navigation
\* throws that error at once, the page is logged with it and skipped.  The
\* credential-embedded attempt follows the swapped retry only.
C8_NoRetryStep ==
    /\ LET e == IF mpc' = "rswap" THEN rerr' ELSE runError' IN
       (/\ mpc = "rgoto"
        /\ rootLoc' = NoUrl
        /\ ~IsProtocolOrAuthError(e) \/ ~IsHttpUrl(url))
       => (mpc' = "finally" /\ runError' = e /\ url' = url)
    /\ (mpc' = "rcred" /\ mpc # "rcred") => mpc = "rswap"
    /\ \A w \in WorkerIds :
          LET i == wk[w].idx
              e == IF wk'[w].pc = "swap" THEN wk'[w].err ELSE items'[i].log
          IN
          (/\ wk[w].pc = "goto"
           /\ wk'[w] # wk[w]
           /\ items'[i].nav # "ok"
           /\ browserOpen
           /\ ~IsProtocolOrAuthError(e) \/ ~IsHttpUrl(wk[w].pageUrl))
          => (items'[i].nav = "failed" /\ items'[i].ret = "returned")

C8_NoRetryOutsideClassification == [][C8_NoRetryStep]_vars

\* A root navigation of a URL that is not http(s) failed with a classified
\* error and was not retried.
C8_Witness ==
    /\ RootNavFailed
    /\ ~IsHttpUrl(url)
    /\ IsProtocolOrAuthError(runError)

----------------------------------------------------------------------------
(***************************************************************************)
(* Claims about processImages (checked under SpecImg)                      *)
(***************************************************************************)
\* C9: when the same src occurs twice in the Markdown and both downloads
\* succeed, the two occurrences have two distinct file names and each
\* reference is rewritten to the local path of its own file.
C9_EachOccurrenceItsOwnFile ==
    ipc = "returned" =>
        \A p, q \in Positions :
            (/\ p < q
             /\ imgMd[p] = imgMd[q]
             /\ dl[p].st = "ok"
             /\ dl[q].st = "ok")
            => /\ dl[p].name # dl[q].name
               /\ pageMd[p] = Local(dl[p].name)
               /\ pageMd[q] = Local(dl[q].name)

\* C10: in the Markdown the page goes on to persist, a reference whose
\* download failed keeps its original link and every reference whose
\* download succeeded is rewritten to a local path.
C10_FailureLeavesOthersRewritten ==
    ipc \in {"returned", "threw"} =>
        \A p \in Positions :
            /\ dl[p].st \in {"failed", "rejected"} => pageMd[p] = imgMd[p]
            /\ dl[p].st = "ok" => pageMd[p].at = "local"

\* C11: in the Markdown processImages returns, a reference is rewritten to
\* a local path if and only if its own download succeeded, and then to the
\* path of its own file; every other token (text, a data: reference, a
\* reference whose download did not succeed) is as in the input.
C11_RewrittenIffDownloaded ==
    ipc = "returned" =>
        /\ Len(pageMd) = Len(imgMd)
        /\ \A p \in Positions :
              IF dl[p].st = "ok"
              THEN pageMd[p].kind = "img" /\ pageMd[p].at = "local"
              ELSE pageMd[p] = imgMd[p]

----------------------------------------------------------------------------
(***************************************************************************)
(* processPages on a table of contents that may link a page more than     *)
(* once: extractTableOfContents pushes one descriptor per a[href] of the   *)
(* container and removes no duplicate.                                     *)
(***************************************************************************)
InitRepeated ==
    /\ ImgIdle
    /\ url \in BaseUrls
    /\ opts \in [all : {FALSE}, auth : {"full"},
                 downloadImages : {TRUE}, concurrency : 1 .. MaxConc]
    /\ site \in Tocs(MaxPages)
    /\ netErrors = {"net::ERR_CERT_AUTHORITY_INVALID"}
    /\ mpc = "pages"
    /\ rerr = NoErr
    /\ rootLoc = url
    /\ browserOpen = TRUE
    /\ runState = "running"
    /\ runError = NoErr
    /\ toc = site
    /\ files = {IndexFile}
    /\ poolState = "idle"
    /\ workers = 0
    /\ wk = [w \in WorkerIds |-> IdleWorker]
    /\ items = [i \in PageIds |-> FreshItem]

SpecRepeated == InitRepeated /\ [][NextPool]_vars

DistinctPaths ==
    \A i, j \in Indices : i # j => PageFile(ItemPath(i)) # PageFile(ItemPath(j))

----------------------------------------------------------------------------
(***************************************************************************)
(* Further claims about the pool (checked under Spec)                      *)
(***************************************************************************)
\* C12: a page whose Markdown is empty never reaches the directory creation
\* or the write and has no file; the step that ends its processing closes
\* the session, returns without an error, writes nothing, and the worker
\* goes on with the next index of its stripe.
C12_EmptyPageState ==
    /\ \A w \in Active :
          wk[w].pc \in {"mkdir", "write"} => items[wk[w].idx].md # "empty"
    /\ \A i \in Indices :
          items[i].md = "empty" => (~items[i].wrote /\ PageFile(ItemPath(i)) \notin files)

C12_EmptyPageStep ==
    \A w \in WorkerIds :
        LET i == wk[w].idx IN
        (/\ wk[w].pc = "close"
         /\ items[i].md = "empty"
         /\ browserOpen
         /\ wk'[w] # wk[w])
        => /\ items'[i].ret = "returned"
           /\ items'[i].session = "closed"
           /\ wk'[w].idx = i + workers
           /\ wk'[w].pc = IF i + workers < total THEN "newPage" ELSE "done"
           /\ UNCHANGED <<runvars, files>>

C12_EmptyPageSkipped == []C12_EmptyPageState /\ [][C12_EmptyPageStep]_vars

\* The first page of the only worker was empty: it was skipped with its
\* session closed, and the worker wrote its next page.
C12_Witness ==
    /\ workers = 1
    /\ items[0].md = "empty"
    /\ items[0].ret = "returned"
    /\ items[0].session = "closed"
    /\ PageFile(ItemPath(0)) \notin files
    /\ items[1].wrote
    /\ runError = NoErr

----------------------------------------------------------------------------
(***************************************************************************)
(* The domTable rule (configureTurndownRules).  A TABLE element is the     *)
(* sequence of its tr rows; a row is whether it holds a th, and the        *)
(* textContent of its th and td cells in order.  A string is the sequence  *)
(* of its characters.                                                      *)
(***************************************************************************)
CellTexts == {<<"a">>, <<"a", "|", "b">>, <<" ", "a", "\n", "\n", "b">>}
Rows ==
    {[th |-> h, cells |-> c] :
        h \in BOOLEAN, c \in UNION {[1 .. n -> CellTexts] : n \in 1 .. MaxCells}}
    \cup {[th |-> FALSE, cells |-> <<>>]}
Tables == UNION {[1 .. n -> Rows] : n \in 0 .. MaxRows}

IsSpace(ch) == ch \in {" ", "\n", "\r", "\t"}

\* .replace(/\r?\n+/g, " ")
RECURSIVE SkipNewlines(_)
SkipNewlines(t) ==
    IF t # <<>> /\ Head(t) = "\n" THEN SkipNewlines(Tail(t)) ELSE t
RECURSIVE ReplaceNewlines(_)
ReplaceNewlines(t) ==
    IF t = <<>> THEN <<>>
    ELSE IF Head(t) = "\n" THEN <<" ">> \o ReplaceNewlines(SkipNewlines(t))
    ELSE IF Head(t) = "\r" /\ Len(t) > 1 /\ t[2] = "\n"
    THEN <<" ">> \o ReplaceNewlines(SkipNewlines(Tail(t)))
    ELSE <<Head(t)>> \o ReplaceNewlines(Tail(t))

\* .replace(/\|/g, "\\|")
RECURSIVE EscapePipes(_)
EscapePipes(t) ==
    IF t = <<>> THEN <<>>
    ELSE (IF Head(t) = "|" THEN <<"\\", "|">> ELSE <<Head(t)>>) \o EscapePipes(Tail(t))

\* .trim()
RECURSIVE TrimStart(_)
TrimStart(t) == IF t # <<>> /\ IsSpace(Head(t)) THEN TrimStart(Tail(t)) ELSE t
RECURSIVE TrimEnd(_)
TrimEnd(t) ==
    IF t # <<>> /\ IsSpace(t[Len(t)]) THEN TrimEnd(SubSeq(t, 1, Len(t) - 1)) ELSE t
Trim(t) == TrimEnd(TrimStart(t))

normalizeCellText(text) == Trim(EscapePipes(ReplaceNewlines(text)))

\* parts.join(sep)
RECURSIVE Join(_, _)
Join(parts, sep) ==
    IF parts = <<>> THEN <<>>
    ELSE IF Len(parts) = 1 THEN parts[1]
    ELSE parts[1] \o sep \o Join(Tail(parts), sep)

\* "| " + texts.join(" | ") + " |"
TableLine(texts) == <<"|", " ">> \o Join(texts, <<" ", "|", " ">>) \o <<" ", "|">>

\* rows.find((r) => r.querySelector("th")) || rows[0], as an index from 1
HeaderIndex(rows) ==
    IF \E k \in 1 .. Len(rows) : rows[k].th
    THEN CHOOSE k \in 1 .. Len(rows) :
            rows[k].th /\ \A j \in 1 .. (k - 1) : ~rows[j].th
    ELSE 1

\* startIndex: 1 when the header row is rows[0], else 0
StartIndex(rows) == IF HeaderIndex(rows) = 1 THEN 1 ELSE 0

\* the replacement function of the rule
domTable(rows) ==
    IF Len(rows) = 0 THEN <<>>
    ELSE
      LET headerCells == rows[HeaderIndex(rows)].cells
          headers == [i \in 1 .. Len(headerCells) |-> normalizeCellText(headerCells[i])]
          headerLine == TableLine(headers)
          sepLine == TableLine([i \in 1 .. Len(headers) |-> <<"-", "-", "-">>])
          bodyRows == SubSeq(rows, StartIndex(rows) + 1, Len(rows))
          bodyLines == [r \in 1 .. Len(bodyRows) |->
                          TableLine([i \in 1 .. Len(headers) |->
                              normalizeCellText(IF i <= Len(bodyRows[r].cells)
                                                THEN bodyRows[r].cells[i]
                                                ELSE <<>>)])]
      IN Join(<<headerLine, sepLine>> \o bodyLines, <<"\n">>) \o <<"\n", "\n">>

\* Turndown applies the rule to a TABLE element.
DomTableReplacement ==
    /\ ~tableMd.done
    /\ tableMd' = [done |-> TRUE, text |-> domTable(node)]
    /\ UNCHANGED <<opts, site, netErrors, url, mpc, rerr, rootLoc, browserOpen,
                   runState, runError, toc, files, poolvars, ivars, node,
                   tocDom, tocItems, markdown, normalized>>

\* The page's content holds a TABLE element.
InitTable ==
    /\ url = Url("https", FALSE, 0)
    /\ opts = [all |-> FALSE, auth |-> "none", downloadImages |-> TRUE, concurrency |-> 1]
    /\ site = <<1>>
    /\ netErrors = {}
    /\ mpc = "await"
    /\ rerr = NoErr
    /\ rootLoc = url
    /\ browserOpen = TRUE
    /\ runState = "running"
    /\ runError = NoErr
    /\ toc = site
    /\ files = {IndexFile}
    /\ poolState = "running"
    /\ workers = 1
    /\ wk = [w \in WorkerIds |-> IF w = 0 THEN [Calling(0) EXCEPT !.pc = "extract"] ELSE IdleWorker]
    /\ items = [i \in PageIds |->
                  IF i = 0
                  THEN [FreshItem EXCEPT !.calls = 1, !.session = "open",
                                         !.loc = PageUrlOf(url, 1), !.nav = "ok"]
                  ELSE FreshItem]
    /\ imgMd = <<>>
    /\ ipc = "idle"
    /\ imageMap = [k \in SrcIds |-> NoEntry]
    /\ dl = <<>>
    /\ disk = {}
    /\ pageMd = <<>>
    /\ node \in Tables
    /\ tableMd = NotConverted
    /\ tocDom = NoDocument
    /\ tocItems = NotEvaluated
    /\ markdown = <<>>
    /\ normalized = NotNormalized

SpecTable == InitTable /\ [][DomTableReplacement]_vars

----------------------------------------------------------------------------
(***************************************************************************)
(* Claims about the domTable rule (checked under SpecTable)                *)
(***************************************************************************)
\* The lines of a text, split at its newline characters.
RECURSIVE SplitLines(_)
SplitLines(t) ==
    IF \E k \in 1 .. Len(t) : t[k] = "\n"
    THEN LET k == CHOOSE k \in 1 .. Len(t) :
                     t[k] = "\n" /\ \A j \in 1 .. (k - 1) : t[j] # "\n"
         IN <<SubSeq(t, 1, k - 1)>> \o SplitLines(SubSeq(t, k + 1, Len(t)))
    ELSE <<t>>

\* The lines the rule emitted for the table, without the blank line that
\* ends the block.
EmittedLines == SplitLines(SubSeq(tableMd.text, 1, Len(tableMd.text) - 2))

\* The fields of a table line: one less than its pipes that no backslash escapes.
UnescapedPipes(line) ==
    Cardinality({k \in 1 .. Len(line) : line[k] = "|" /\ (k = 1 \/ line[k - 1] # "\\")})
Fields(line) == UnescapedPipes(line) - 1

\* The table has a row, and its header row (the first row with a th, else
\* the first row) has a cell.
HeaderCells == node[HeaderIndex(node)].cells
WellFormed == Len(node) >= 1 /\ Len(HeaderCells) >= 1

\* C14: for a table whose header row has N cells and which has M other
\* rows, the rule emits M + 2 lines (header, separator, one per body row),
\* each of N fields delimited by unescaped pipes.
C14_TableShape ==
    (tableMd.done /\ WellFormed) =>
        /\ Len(EmittedLines) = (Len(node) - 1) + 2
        /\ \A k \in 1 .. Len(EmittedLines) : Fields(EmittedLines[k]) = Len(HeaderCells)

\* C15: for a malformed table (no row, or a header row without a cell) the
\* rule returns the empty string.
C15_MalformedTableIsEmpty ==
    (tableMd.done /\ ~WellFormed) => tableMd.text = <<>>

----------------------------------------------------------------------------
(***************************************************************************)
(* extractTableOfContents: the function evaluated in the root page.  The   *)
(* document is whether a container is found and, in document order, the    *)
(* a[href] elements under it; a link is its href attribute and the tag     *)
(* names of its ancestors, from its parent up to the container's child.    *)
(***************************************************************************)
HrefParts ==
    {<<".", "/">>, <<"/">>, <<"#">>, <<"a">>, <<"h", "t", "t", "p">>,
     <<"m", "a", "i", "l", "t", "o", ":">>}
Hrefs == {Join(ps, <<>>) : ps \in UNION {[1 .. k -> HrefParts] : k \in 0 .. MaxParts}}
Tags == {"LI", "UL", "DIV"}
Chains == UNION {[1 .. k -> Tags] : k \in 0 .. MaxDepth}
LinkCounts == {0, 1, 2}

\* s.startsWith(prefix)
StartsWith(str, prefix) ==
    Len(str) >= Len(prefix) /\ SubSeq(str, 1, Len(prefix)) = prefix

\* if (!href || href === "#") return;  if (href.startsWith("http")) return;
IsSkipped(href) ==
    \/ href = <<>>
    \/ href = <<"#">>
    \/ StartsWith(href, <<"h", "t", "t", "p">>)

\* Variant: the slash is put in front of every href.
NormalizeAlwaysSlash(href) == <<"/">> \o href

\* if (href.startsWith("./")) href = href.replace(/^\.\//, "");
\* if (!href.startsWith("/")) href = "/" + href;
NormalizeHref(href) ==
    LET stripped == IF StartsWith(href, <<".", "/">>)
                    THEN SubSeq(href, 3, Len(href))
                    ELSE href
    IN IF StartsWith(stripped, <<"/">>) THEN stripped ELSE <<"/">> \o stripped

\* Variant: the link itself counts as a level for every ancestor.
LevelOfEveryAncestor(ancestors) == 1 + Len(ancestors)

\* getElementLevel(element): 1, plus 1 for every LI among the ancestors
getElementLevel(ancestors) ==
    LET level == 1 + Cardinality({k \in 1 .. Len(ancestors) : ancestors[k] = "LI"})
    IN IF level > 1 THEN level ELSE 1

\* links.forEach(...): one descriptor per link that is not skipped
RECURSIVE DescriptorsOf(_)
DescriptorsOf(links) ==
    IF links = <<>> THEN <<>>
    ELSE (IF IsSkipped(Head(links).href)
          THEN <<>>
          ELSE <<[url |-> NormalizeHref(Head(links).href),
                  level |-> getElementLevel(Head(links).ancestors)]>>)
         \o DescriptorsOf(Tail(links))

\* return await page.evaluate(() => { ... })
TocEvaluate ==
    /\ ~tocItems.done
    /\ tocItems' = [done |-> TRUE,
                    items |-> IF tocDom.found THEN DescriptorsOf(tocDom.links) ELSE <<>>]
    /\ UNCHANGED <<opts, site, netErrors, url, mpc, rerr, rootLoc, browserOpen,
                   runState, runError, toc, files, poolvars, ivars, node, tableMd,
                   tocDom, markdown, normalized>>

\* downloadGitbook has loaded the root page and calls extractTableOfContents.
AtTocExtraction ==
    /\ url = Url("https", FALSE, 0)
    /\ opts = [all |-> FALSE, auth |-> "none", downloadImages |-> TRUE, concurrency |-> 1]
    /\ site = <<>>
    /\ netErrors = {}
    /\ mpc = "toc"
    /\ rerr = NoErr
    /\ rootLoc = url
    /\ browserOpen = TRUE
    /\ runState = "running"
    /\ runError = NoErr
    /\ toc = <<>>
    /\ files = {}
    /\ poolState = "idle"
    /\ workers = 0
    /\ wk = [w \in WorkerIds |-> IdleWorker]
    /\ items = [i \in PageIds |-> FreshItem]
    /\ imgMd = <<>>
    /\ ipc = "idle"
    /\ imageMap = [k \in SrcIds |-> NoEntry]
    /\ dl = <<>>
    /\ disk = {}
    /\ pageMd = <<>>
    /\ node = <<>>
    /\ tableMd = NotConverted
    /\ tocItems = NotEvaluated
    /\ markdown = <<>>
    /\ normalized = NotNormalized

DocumentsOf(links) ==
    {NoDocument} \cup
    {[found |-> TRUE, links |-> ls] : ls \in UNION {[1 .. n -> links] : n \in LinkCounts}}

\* Documents whose links differ by their href.
InitToc ==
    /\ AtTocExtraction
    /\ tocDom \in DocumentsOf([href : Hrefs, ancestors : {<<"LI">>}])

SpecToc == InitToc /\ [][TocEvaluate]_vars

\* Documents whose links differ by their place under the container.
InitLevel ==
    /\ AtTocExtraction
    /\ tocDom \in DocumentsOf([href : {<<"/", "a">>}, ancestors : Chains])

SpecLevel == InitLevel /\ [][TocEvaluate]_vars

----------------------------------------------------------------------------
(***************************************************************************)
(* Claims about extractTableOfContents (checked under SpecToc, SpecLevel)  *)
(***************************************************************************)
NoneSkipped == \A k \in 1 .. Len(tocDom.links) : ~IsSkipped(tocDom.links[k].href)

\* C16: the url of every descriptor is a fixed point of the normalization
\* and is not skipped by it; an href that already starts with a slash is
\* the descriptor's url as it is.
C16_NormalizationIdempotent ==
    tocItems.done =>
        /\ \A k \in 1 .. Len(tocItems.items) :
              /\ ~IsSkipped(tocItems.items[k].url)
              /\ NormalizeHref(tocItems.items[k].url) = tocItems.items[k].url
        /\ NoneSkipped =>
              \A k \in 1 .. Len(tocDom.links) :
                 StartsWith(tocDom.links[k].href, <<"/">>)
                    => tocItems.items[k].url = tocDom.links[k].href

\* The links ./a and /a both gave the descriptor url /a.
C16_Witness ==
    /\ tocItems.done
    /\ Len(tocDom.links) = 2
    /\ tocDom.links[1].href = <<".", "/", "a">>
    /\ tocDom.links[2].href = <<"/", "a">>
    /\ Len(tocItems.items) = 2
    /\ tocItems.items[1].url = <<"/", "a">>
    /\ tocItems.items[2].url = <<"/", "a">>

\* The list items among the ancestors of a link.
RECURSIVE ListItems(_)
ListItems(ancestors) ==
    IF ancestors = <<>> THEN 0
    ELSE (IF Head(ancestors) = "LI" THEN 1 ELSE 0) + ListItems(Tail(ancestors))

\* C17: the level of a descriptor is 1 plus the number of list items among
\* the ancestors of its link below the container, and at least 1: 3 for a
\* link under list item, list, list item, and 1 without a list item.
C17_LevelCountsListItems ==
    (tocItems.done /\ tocDom.found /\ NoneSkipped) =>
        /\ Len(tocItems.items) = Len(tocDom.links)
        /\ \A k \in 1 .. Len(tocDom.links) :
              LET ancestors == tocDom.links[k].ancestors IN
              /\ tocItems.items[k].level = 1 + ListItems(ancestors)
              /\ tocItems.items[k].level >= 1
              /\ ancestors = <<"LI", "UL", "LI">> => tocItems.items[k].level = 3
              /\ ListItems(ancestors) = 0 => tocItems.items[k].level = 1

\* A link two list items deep got level 3, a link under a DIV only level 1.
C17_Witness ==
    /\ tocItems.done
    /\ Len(tocDom.links) = 2
    /\ tocDom.links[1].ancestors = <<"LI", "UL", "LI">>
    /\ tocDom.links[2].ancestors = <<"DIV">>
    /\ tocItems.items[1].level = 3
    /\ tocItems.items[2].level = 1

----------------------------------------------------------------------------
(***************************************************************************)
(* Further claims about downloadGitbook (checked under SpecRun)            *)
(***************************************************************************)
\* downloadGitbook took the whole-site branch.
WholeSite == ~(HasPath(url) /\ ~opts.all)

\* C18: a whole-site run whose table of contents is empty falls back to
\* single-page mode: when it has completed, the root page has been written
\* as one Markdown file.
C18_EmptyTocFallsBack ==
    (runState = "resolved" /\ WholeSite /\ toc = <<>>) => SingleFile \in files


\* C19: a step that writes a file (the index file, the single page's file,
\* a page's file) never raises: whether the write succeeds or fails, the
\* run goes on to its next step without an error.
C19_WriteStep ==
    /\ mpc = "index" => (mpc' = "pages" /\ runError' = NoErr)
    /\ mpc = "swrite" => runError' = NoErr
    /\ \A w \in WorkerIds :
          (wk[w].pc = "write" /\ wk'[w] # wk[w])
          => (wk'[w].pc = "close" /\ UNCHANGED runvars)

C19_WriteFailureNeverRaises == [][C19_WriteStep]_vars


\* C20: a page's navigation makes the attempts the root navigation makes:
\* after a failed first attempt it retries with the scheme swapped exactly
\* when the root navigation would (the error is in the root's
\* classification, 401 included, and the URL is http(s)), and after a failed
\* swapped retry with credentials supplied it makes the credential-embedded
\* attempt.
C20_PageStep ==
    \A w \in WorkerIds :
        LET i == wk[w].idx
            e == IF wk'[w].pc = "swap" THEN wk'[w].err ELSE items'[i].log
        IN
        /\ (/\ wk[w].pc = "goto"
            /\ wk'[w] # wk[w]
            /\ browserOpen
            /\ items'[i].nav # "ok")
           => (wk'[w].pc = "swap"
                  <=> (IsProtocolOrAuthError(e) /\ IsHttpUrl(wk[w].pageUrl)))
        /\ (/\ wk[w].pc = "swap"
            /\ wk'[w] # wk[w]
            /\ browserOpen
            /\ items'[i].nav # "ok"
            /\ HasCredentials)
           => wk'[w].pc = "cred"

C20_PageNavigationLikeRoot == [][C20_PageStep]_vars

----------------------------------------------------------------------------
(***************************************************************************)
(* The skip rule of extractTableOfContents (checked under SpecToc)         *)
(***************************************************************************)
Letters == {"a", "h", "i", "l", "m", "o", "p", "t"}

\* The href begins with a URL scheme: letters followed by a colon.
BeginsWithScheme(href) ==
    \E k \in 2 .. Len(href) :
        /\ href[k] = ":"
        /\ \A j \in 1 .. k - 1 : href[j] \in Letters

\* The links that are to be skipped: empty, the bare fragment, a scheme.
ToBeSkipped(href) ==
    \/ href = <<>>
    \/ href = <<"#">>
    \/ BeginsWithScheme(href)

\* The urls of the descriptors, in document order, one per link that is not
\* to be skipped.
RECURSIVE UrlsToBeKept(_)
UrlsToBeKept(links) ==
    IF links = <<>> THEN <<>>
    ELSE (IF ToBeSkipped(Head(links).href)
          THEN <<>>
          ELSE <<NormalizeHref(Head(links).href)>>)
         \o UrlsToBeKept(Tail(links))

\* C21: a link is skipped exactly when its href is empty, is the bare
\* fragment # or begins with a URL scheme; every other link, a relative
\* href that starts with the letters http included, yields one descriptor,
\* in document order, with a leading ./ removed and a leading / forced, and
\* a repeated URL yields a descriptor each time.
C21_SkipRule ==
    (tocItems.done /\ tocDom.found) =>
        /\ Len(tocItems.items) = Len(UrlsToBeKept(tocDom.links))
        /\ \A k \in 1 .. Len(tocItems.items) :
              tocItems.items[k].url = UrlsToBeKept(tocDom.links)[k]

----------------------------------------------------------------------------
(***************************************************************************)
(* normalizeTables(markdown), as processItem calls it on the Markdown of   *)
(* the page:  try { markdown = normalizeTables(markdown) } catch (e) {}    *)
(* The Markdown is the sequence of its characters.                         *)
(***************************************************************************)
MaxLines == 3

\* The lines a page's Markdown is made of: text, table rows with and without
\* outer pipes, and lines of dashes with and without pipes and colons.
LineTexts ==
    {<<>>,
     <<"a">>,
     <<"|", " ", "a", " ", "|">>,
     <<"a", " ", "|", " ", "b">>,
     <<"|", " ", "a", " ", "|", " ", "b", " ", "|">>,
     <<"|", " ", "-", "-", "-", " ", "|">>,
     <<"-", "-", "-">>,
     <<"|", " ", "-", "-", " ", "|">>,
     <<"|", ":", "-", "-", "-", ":", "|">>,
     <<":", "-", "-", "-", "|", "-", "-", "-", "-">>}
PageMarkdowns == {Join(ls, <<"\n">>) : ls \in UNION {[1 .. n -> LineTexts] : n \in 0 .. MaxLines}}

\* markdown.split("\n")
RECURSIVE Split(_)
Split(str) ==
    IF \E k \in 1 .. Len(str) : str[k] = "\n"
    THEN LET k == CHOOSE k \in 1 .. Len(str) :
                     str[k] = "\n" /\ \A j \in 1 .. (k - 1) : str[j] # "\n"
         IN <<SubSeq(str, 1, k - 1)>> \o Split(SubSeq(str, k + 1, Len(str)))
    ELSE <<str>>

\* line.includes("|")
IncludesPipe(line) == \E k \in 1 .. Len(line) : line[k] = "|"

\* The regular expression /^\s*\|?\s*:?-{3,}\s*(\|\s*:?-{3,}\s*)*\|?\s*$/ is
\* matched from a set of positions of the line to the set of positions its
\* next part can end at.
\* \s*
Spaces(str, P) ==
    {q \in 1 .. Len(str) + 1 :
        \E p \in P : p <= q /\ \A j \in p .. (q - 1) : IsSpace(str[j])}
\* a character that has to be there
Required(str, ch, P) == {p + 1 : p \in {q \in P : q <= Len(str) /\ str[q] = ch}}
\* \|? and :?
Optional(str, ch, P) == P \cup Required(str, ch, P)
\* -{3,}
Dashes(str, P) ==
    {q \in 1 .. Len(str) + 1 :
        \E p \in P : p + 3 <= q /\ \A j \in p .. (q - 1) : str[j] = "-"}
\* :?-{3,}\s*
Column(str, P) == Spaces(str, Dashes(str, Optional(str, ":", P)))
\* (\|\s*:?-{3,}\s*)*
RECURSIVE MoreColumns(_, _)
MoreColumns(str, P) ==
    LET Q == P \cup Column(str, Spaces(str, Required(str, "|", P)))
    IN IF Q = P THEN P ELSE MoreColumns(str, Q)
\* regex.test(line)
IsSeparatorLine(line) ==
    (Len(line) + 1) \in
        Spaces(line, Optional(line, "|",
            MoreColumns(line, Column(line,
                Spaces(line, Optional(line, "|", Spaces(line, {1})))))))

\* lines[i].split("|").length - 1
Cols(line) == Cardinality({k \in 1 .. Len(line) : line[k] = "|"})

\* Variant: the separator line has one column whatever the header line is.
SeparatorOfOneColumn(cols) == <<"|", " ", "-", "-", "-", " ", "|">>

\* "|" + parts.join("|") + "|", parts being cols times " --- "
SeparatorOf(cols) ==
    <<"|">> \o Join([c \in 1 .. cols |-> <<" ", "-", "-", "-", " ">>], <<"|">>) \o <<"|">>

\* the body of the loop from index i on: what is pushed to `out`
RECURSIVE OutFrom(_, _)
OutFrom(lines, i) ==
    IF i > Len(lines) THEN <<>>
    ELSE <<lines[i]>>
         \o (IF /\ IncludesPipe(lines[i])
                /\ i + 1 <= Len(lines)
                /\ IncludesPipe(lines[i + 1])
                /\ ~IsSeparatorLine(lines[i + 1])
                /\ Cols(lines[i]) > 0
             THEN <<SeparatorOf(Cols(lines[i]))>>
             ELSE <<>>)
         \o OutFrom(lines, i + 1)

\* function normalizeTables(markdown)
normalizeTables(md) == Join(OutFrom(Split(md), 1), <<"\n">>)

\* markdown = normalizeTables(markdown)
NormalizeTables ==
    /\ ~normalized.done
    /\ normalized' = [done |-> TRUE, text |-> normalizeTables(markdown)]
    /\ UNCHANGED <<opts, site, netErrors, url, mpc, rerr, rootLoc, browserOpen,
                   runState, runError, toc, files, poolvars, ivars, node, tableMd,
                   tocDom, tocItems, markdown>>

\* processItem has converted the page's content and calls normalizeTables.
AtNormalizeTables ==
    /\ url = Url("https", FALSE, 0)
    /\ opts = [all |-> FALSE, auth |-> "none", downloadImages |-> FALSE, concurrency |-> 1]
    /\ site = <<1>>
    /\ netErrors = {}
    /\ mpc = "await"
    /\ rerr = NoErr
    /\ rootLoc = url
    /\ browserOpen = TRUE
    /\ runState = "running"
    /\ runError = NoErr
    /\ toc = site
    /\ files = {IndexFile}
    /\ poolState = "running"
    /\ workers = 1
    /\ wk = [w \in WorkerIds |-> IF w = 0 THEN [Calling(0) EXCEPT !.pc = "extract"] ELSE IdleWorker]
    /\ items = [i \in PageIds |->
                  IF i = 0
                  THEN [FreshItem EXCEPT !.calls = 1, !.session = "open",
                                         !.loc = PageUrlOf(url, 1), !.nav = "ok"]
                  ELSE FreshItem]
    /\ imgMd = <<>>
    /\ ipc = "idle"
    /\ imageMap = [k \in SrcIds |-> NoEntry]
    /\ dl = <<>>
    /\ disk = {}
    /\ pageMd = <<>>
    /\ tocDom = NoDocument
    /\ tocItems = NotEvaluated
    /\ normalized = NotNormalized

\* The page's Markdown is any text made of the lines above.
InitNormalize ==
    /\ AtNormalizeTables
    /\ node = <<>>
    /\ tableMd = NotConverted
    /\ markdown \in PageMarkdowns

SpecNormalize == InitNormalize /\ [][NormalizeTables]_vars

----------------------------------------------------------------------------
(***************************************************************************)
(* Claims about normalizeTables (checked under SpecNormalize)              *)
(***************************************************************************)
\* The lines given to normalizeTables and the lines it returned.
LinesIn == SplitLines(markdown)
LinesOut == SplitLines(normalized.text)
Pipes(line) == Cardinality({k \in 1 .. Len(line) : line[k] = "|"})

\* A separator line is due between lines i and i + 1.
SeparatorDue(i) ==
    /\ i + 1 <= Len(LinesIn)
    /\ Pipes(LinesIn[i]) > 0
    /\ Pipes(LinesIn[i + 1]) > 0
    /\ ~IsSeparatorLine(LinesIn[i + 1])

\* Where line i of the input is in the output: after the lines before it
\* and the separator lines due before it.
PlaceOf(i) == i + Cardinality({j \in 1 .. (i - 1) : SeparatorDue(j)})

\* C22: the output is the input's lines in their order, with one line
\* inserted between lines i and i + 1 exactly when both contain a pipe and
\* line i + 1 is not a valid separator line; the inserted line is a valid
\* separator line of as many columns as line i has pipes.
C22_SeparatorInserted ==
    normalized.done =>
        /\ Len(LinesOut) = Len(LinesIn)
                           + Cardinality({i \in 1 .. Len(LinesIn) : SeparatorDue(i)})
        /\ \A i \in 1 .. Len(LinesIn) :
              /\ LinesOut[PlaceOf(i)] = LinesIn[i]
              /\ SeparatorDue(i) =>
                    /\ IsSeparatorLine(LinesOut[PlaceOf(i) + 1])
                    /\ Pipes(LinesOut[PlaceOf(i) + 1]) = Pipes(LinesIn[i]) + 1

\* A row followed by a valid separator line got nothing inserted, and the
\* separator line followed by a row got a separator line of two columns.
C22_Witness ==
    /\ normalized.done
    /\ LinesIn = <<<<"|", " ", "a", " ", "|">>,
                   <<"|", " ", "-", "-", "-", " ", "|">>,
                   <<"|", " ", "a", " ", "|", " ", "b", " ", "|">>>>
    /\ Len(LinesOut) = 4
    /\ LinesOut[3] = <<"|", " ", "-", "-", "-", " ", "|", " ", "-", "-", "-", " ", "|">>

----------------------------------------------------------------------------
(***************************************************************************)
(* normalizeTables on the Markdown of a page whose content is one TABLE    *)
(* element: turndown has applied the domTable rule to it.                  *)
(***************************************************************************)
InitTableNormalize ==
    /\ AtNormalizeTables
    /\ node \in Tables
    /\ tableMd = [done |-> TRUE, text |-> domTable(node)]
    /\ markdown = tableMd.text

SpecTableNormalize == InitTableNormalize /\ [][NormalizeTables]_vars

\* C25: normalizeTables leaves the table the domTable rule emitted for a
\* well-formed TABLE element whose header row is its first row (a header
\* line, a valid separator line, the body lines) unchanged: the same lines
\* come out; and applying normalizeTables to its own output adds no
\* further line.
C25_TableUnchangedAndIdempotent ==
    (normalized.done /\ WellFormed /\ HeaderIndex(node) = 1) =>
        /\ LinesOut = LinesIn
        /\ normalizeTables(normalized.text) = normalized.text

----------------------------------------------------------------------------
(***************************************************************************)
(* Further claims about processImages (checked under SpecImg)              *)
(***************************************************************************)
\* C23: no two image downloads write the same local file: two occurrences
\* whose downloads both wrote their file have two different file names.
C23_NoTwoDownloadsOnePath ==
    \A p, q \in Positions :
        (p < q /\ dl[p].st = "ok" /\ dl[q].st = "ok") => dl[p].name # dl[q].name

\* C24: in the Markdown processImages returns, every reference that was
\* rewritten to a local path points to a file that was written during the
\* call.
C24_RewrittenPointsToWrittenFile ==
    ipc = "returned" =>
        \A p \in Positions :
            (pageMd[p].kind = "img" /\ pageMd[p].at = "local") => pageMd[p].id \in disk

----------------------------------------------------------------------------
(***************************************************************************)
(* Open sessions of the pool (checked under Spec)                          *)
(***************************************************************************)
\* The pages the workers have opened and that are not closed.
OpenSessions == {i \in PageIds : items[i].session = "open"}
\* The indices worker w is given by the striping.
IndicesOf(w) == {i \in PageIds : workers > 0 /\ i % workers = w}

C26_OpenState ==
    /\ Cardinality(OpenSessions) <= opts.concurrency
    /\ Cardinality(OpenSessions) <= total
    /\ \A w \in WorkerIds : Cardinality(OpenSessions \cap IndicesOf(w)) <= 1

C26_OpenStep ==
    \A i \in PageIds :
        (items[i].session # "open" /\ items'[i].session = "open")
        => \A j \in IndicesOf(i % workers) : j < i => items[j].ret = "returned"

\* C26: at every moment the sessions opened by the workers and not closed
\* are at most min(concurrency, page count), every worker has at most one
\* of them, and a worker opens the session of an index only after the
\* processing of its previous indices has returned.
C26_OpenSessionsBounded == []C26_OpenState /\ [][C26_OpenStep]_vars

\* Two workers hold a session each, worker 0 that of its second index
\* after it has closed its first.
C26_Witness ==
    /\ workers = 2
    /\ total = 3
    /\ items[0].session = "closed"
    /\ items[1].session = "open"
    /\ items[2].session = "open"

====
